---- MODULE Spec2Model ----
(***************************************************************************)
(* Model of grid3d.cpp: the Ray particle (Ray::Ray, Ray::update and its    *)
(* helpers), the obstacle list handed to Ray::update, and the camera /     *)
(* frame loop of main.                                                     *)
(*                                                                         *)
(* Numbers.  The program computes in float.  The model computes in fixed   *)
(* point: a length is an integer number of 1/Scale units (0.005f is 50,    *)
(* 0.02f is 200, 0.5 is 5000), a sine or cosine is an integer number of    *)
(* 1/TrigScale units, and every product is rounded to the nearest unit    *)
(* where the float product is rounded to the nearest float.  Angles are   *)
(* whole degrees throughout, as in the program (45.0f, rand() % 180).      *)
(***************************************************************************)
EXTENDS Integers, Sequences, FiniteSets, TLC

VARIABLES
    ray,          \* the Ray object: its eight fields
    spheres,      \* which std::vector<Sphere> update's const reference names
    pre,          \* history: the Ray as it was when the last update began
    post,         \* history: the Ray after lines 114-115 of the last update
    out,          \* history: what the last update wrote to std::cout
    nrand,        \* history: how many times the last update called rand()
    drawn,        \* history: the values those calls of rand() returned, in order
    sinceReset,   \* history: the updates run since the last reset (or the start)
    cameraTheta,  \* main: horizontal camera angle
    cameraPhi,    \* main: vertical camera angle
    clamped,      \* history: the last frame's std::max or std::min cut the angle
    rayVertices,  \* main: the end point handed to glBufferSubData
    view,         \* main: the camera position handed to glm::lookAt
    calls         \* history: what the last frame called, in order

vars == <<ray, spheres, pre, post, out, nrand, drawn, sinceReset, cameraTheta,
          cameraPhi, clamped, rayVertices, view, calls>>

----------------------------------------------------------------------------
(* Numeric representation *)

Scale == 10000
TrigScale == 1000

\* the nearest integer to n / d (d > 0), halves away from zero
Round(n, d) ==
    IF n >= 0 THEN (2 * n + d) \div (2 * d)
    ELSE -((2 * (-n) + d) \div (2 * d))

\* std::fabs
fabs(v) == IF v < 0 THEN -v ELSE v

\* 1000 * sin(d degrees), d = 0 .. 90, to the nearest integer
SinTable ==
    << 0, 17, 35, 52, 70, 87, 105, 122, 139, 156, 174, 191, 208, 225, 242,
       259, 276, 292, 309, 326, 342, 358, 375, 391, 407, 423, 438, 454, 469,
       485, 500, 515, 530, 545, 559, 574, 588, 602, 616, 629, 643, 656, 669,
       682, 695, 707, 719, 731, 743, 755, 766, 777, 788, 799, 809, 819, 829,
       839, 848, 857, 866, 875, 883, 891, 899, 906, 914, 921, 927, 934, 940,
       946, 951, 956, 961, 966, 970, 974, 978, 982, 985, 988, 990, 993, 995,
       996, 998, 999, 999, 1000, 1000 >>

\* sin(glm::radians(d)) for a whole number of degrees d
Sin(d) ==
    LET m == d % 360 IN
    IF m <= 90 THEN SinTable[m + 1]
    ELSE IF m <= 180 THEN SinTable[180 - m + 1]
    ELSE IF m <= 270 THEN -SinTable[m - 180 + 1]
    ELSE -SinTable[360 - m + 1]

\* cos(glm::radians(d))
Cos(d) == Sin(d + 90)

----------------------------------------------------------------------------
(* Program constants *)

GRID_SIZE == 5
CELL_SIZE == 2000
RAND_MAX == 2147483647
rotationSpeed == 2

----------------------------------------------------------------------------
(* class Sphere: position and radius (the vertices are render data only) *)

Sphere(xPos, yPos, zPos, r) == [x |-> xPos, y |-> yPos, z |-> zPos, radius |-> r]

\* main's sphere list: 24 columns (x, y), in this order, ...
ShippedXY ==
    << <<1000, -1000>>, <<2000, -1000>>, <<3000, -1000>>, <<4000, -1000>>,
       <<1000, 0>>,     <<2000, 0>>,     <<3000, 0>>,     <<4000, 0>>,
       <<1000, 1000>>,  <<2000, 1000>>,  <<3000, 1000>>,  <<4000, 1000>>,
       <<1000, 2000>>,  <<2000, 2000>>,  <<3000, 2000>>,  <<4000, 2000>>,
       <<1000, 3000>>,  <<2000, 3000>>,  <<3000, 3000>>,  <<4000, 3000>>,
       <<1000, 4000>>,  <<2000, 4000>>,  <<3000, 4000>>,  <<4000, 4000>> >>

\* ... each holding 18 spheres at these z, in this order (-0.4 is listed twice)
ShippedZ ==
    << 4000, -4000, 3500, 3000, 2500, 2000, 1500, 1000, 500, 0, -500, -1000,
       -1500, -2000, -2500, -3000, -3500, -4000 >>

ShippedSpheres ==
    [i \in 1 .. (Len(ShippedXY) * Len(ShippedZ)) |->
        Sphere(ShippedXY[((i - 1) \div Len(ShippedZ)) + 1][1],
               ShippedXY[((i - 1) \div Len(ShippedZ)) + 1][2],
               ShippedZ[((i - 1) % Len(ShippedZ)) + 1],
               200)]

\* other lists a caller can hand to Ray::update
NoSpheres == << >>

\* two spheres that both hold (0.28, 0, 0), one that reaches past the cube's
\* top face, and one thinner than a step of the ray, between the points
\* (-0.1, 0, 0) and (-0.105, 0, 0) of the flight along -x
TestSpheres ==
    << Sphere(3000, 0, 0, 200), Sphere(3120, 0, 0, 330),
       Sphere(0, 5250, 0, 200), Sphere(-1025, 0, 0, 20) >>

\* Ray::update takes the list by const reference and main never changes its
\* list after building it: the state holds the name of the list, and this is
\* the list it names
SphereListNames == {"main", "none", "test"}
SphereList(name) ==
    CASE name = "main" -> ShippedSpheres
      [] name = "none" -> NoSpheres
      [] name = "test" -> TestSpheres

----------------------------------------------------------------------------
(* class Ray *)

\* Ray::Ray
RayInit ==
    [zenith |-> 45, azimuth |-> 45, currentLength |-> 0, speed |-> 50,
     gridHalfSize |-> (GRID_SIZE * CELL_SIZE) \div 2,
     x |-> 0, y |-> 0, z |-> 0]

\* variants of isOutsideCube: equality counted as outside; y never tested
isOutsideCubeInclusive(r) ==
    \/ fabs(r.x) >= r.gridHalfSize
    \/ fabs(r.y) >= r.gridHalfSize
    \/ fabs(r.z) >= r.gridHalfSize

isOutsideCubeNoY(r) ==
    \/ fabs(r.x) > r.gridHalfSize
    \/ fabs(r.z) > r.gridHalfSize

\* Ray::isOutsideCube
isOutsideCube(r) ==
    \/ fabs(r.x) > r.gridHalfSize
    \/ fabs(r.y) > r.gridHalfSize
    \/ fabs(r.z) > r.gridHalfSize

\* variant of intersectsSphere: strictly less, as its own comment words it
intersectsSphereStrict(r, sphereX, sphereY, sphereZ, sphereRadius) ==
    LET dx == r.x - sphereX
        dy == r.y - sphereY
        dz == r.z - sphereZ
    IN  dx * dx + dy * dy + dz * dz < sphereRadius * sphereRadius

\* Ray::intersectsSphere
intersectsSphere(r, sphereX, sphereY, sphereZ, sphereRadius) ==
    LET dx == r.x - sphereX
        dy == r.y - sphereY
        dz == r.z - sphereZ
        distanceSquared == dx * dx + dy * dy + dz * dz
    IN  distanceSquared <= sphereRadius * sphereRadius

\* variant of updatePosition: zenith is measured from the horizontal plane
updatePositionFromHorizon(r) ==
    LET horizontal == Round(r.currentLength * Cos(r.zenith), TrigScale)
    IN  [r EXCEPT !.x = Round(horizontal * Cos(r.azimuth), TrigScale),
                  !.y = Round(r.currentLength * Sin(r.zenith), TrigScale),
                  !.z = Round(horizontal * Sin(r.azimuth), TrigScale)]

\* Ray::updatePosition
updatePosition(r) ==
    LET horizontal == Round(r.currentLength * Sin(r.zenith), TrigScale)
    IN  [r EXCEPT !.x = Round(horizontal * Cos(r.azimuth), TrigScale),
                  !.y = Round(r.currentLength * Cos(r.zenith), TrigScale),
                  !.z = Round(horizontal * Sin(r.azimuth), TrigScale)]

\* variant of move: the length advances by two steps of speed
moveTwice(r) == updatePosition([r EXCEPT !.currentLength = @ + 2 * r.speed])

\* variant of move: the length is not advanced
moveStuck(r) == updatePosition(r)

\* Ray::update, lines 114-115: currentLength += speed; updatePosition()
move(r) == updatePosition([r EXCEPT !.currentLength = @ + r.speed])

\* variant of firstHit: a sphere also counts when it holds the point half a
\* step before p on the ray's line
firstHitSwept(p, sph) ==
    LET mid  == updatePosition([p EXCEPT !.currentLength = @ - (p.speed \div 2)])
        hits == {i \in 1 .. Len(sph) :
                    \/ intersectsSphere(p, sph[i].x, sph[i].y, sph[i].z,
                                        sph[i].radius)
                    \/ intersectsSphere(mid, sph[i].x, sph[i].y, sph[i].z,
                                        sph[i].radius)}
    IN  IF hits = {} THEN 0
        ELSE CHOOSE i \in hits : \A j \in hits : i <= j

\* variant of firstHit: the last intersecting sphere wins
lastHit(p, sph) ==
    LET hits == {i \in 1 .. Len(sph) :
                    intersectsSphere(p, sph[i].x, sph[i].y, sph[i].z,
                                     sph[i].radius)}
    IN  IF hits = {} THEN 0
        ELSE CHOOSE i \in hits : \A j \in hits : i >= j

\* Ray::update, the for loop with its early return: the index of the sphere
\* at which the loop's if is entered, 0 when the loop runs to its end.  The
\* loop tests the spheres in order and stops at the first that intersects;
\* intersectsSphere only reads, so that is the least intersecting index.
firstHit(p, sph) ==
    LET hits == {i \in 1 .. Len(sph) :
                    intersectsSphere(p, sph[i].x, sph[i].y, sph[i].z,
                                     sph[i].radius)}
    IN  IF hits = {} THEN 0
        ELSE CHOOSE i \in hits : \A j \in hits : i <= j

\* variant of randomZenith: 0 to 180 inclusive
randomZenithInclusive(v) == v % 181

\* rand() % 180 and rand() % 360
randomZenith(v) == v % 180
randomAzimuth(v) == v % 360

\* variant of onSphereHit: the hit is reported and a new direction drawn, but
\* the ray is left where it is
onSphereHitStays(p, s, rnd) ==
    [ray   |-> [p EXCEPT !.zenith = randomZenith(rnd[1]),
                         !.azimuth = randomAzimuth(rnd[2])],
     out   |-> << [kind |-> "HIT_OBSTACLE", x |-> s.x, y |-> s.y, z |-> s.z] >>,
     nrand |-> 2]

\* variant of onSphereHit: the reset also sets the speed to 0
onSphereHitStops(p, s, rnd) ==
    [ray   |-> [p EXCEPT !.currentLength = 0, !.x = 0, !.y = 0, !.z = 0,
                         !.speed = 0,
                         !.zenith = randomZenith(rnd[1]),
                         !.azimuth = randomAzimuth(rnd[2])],
     out   |-> << [kind |-> "HIT_OBSTACLE", x |-> s.x, y |-> s.y, z |-> s.z] >>,
     nrand |-> 2]

\* variant of onSphereHit: the length is not set back to 0
onSphereHitKeepsLength(p, s, rnd) ==
    [ray   |-> [p EXCEPT !.x = 0, !.y = 0, !.z = 0,
                         !.zenith = randomZenith(rnd[1]),
                         !.azimuth = randomAzimuth(rnd[2])],
     out   |-> << [kind |-> "HIT_OBSTACLE", x |-> s.x, y |-> s.y, z |-> s.z] >>,
     nrand |-> 2]

\* Ray::update, lines 120-125: the body of the loop's if.  rnd holds the
\* values the next calls of rand() return.
onSphereHit(p, s, rnd) ==
    [ray   |-> [p EXCEPT !.currentLength = 0, !.x = 0, !.y = 0, !.z = 0,
                         !.zenith = randomZenith(rnd[1]),
                         !.azimuth = randomAzimuth(rnd[2])],
     out   |-> << [kind |-> "HIT_OBSTACLE", x |-> s.x, y |-> s.y, z |-> s.z] >>,
     nrand |-> 2]

\* variant of onBoundary: the first draw goes to azimuth, the second to zenith
onBoundarySwapsDraws(p, rnd) ==
    [ray   |-> [p EXCEPT !.currentLength = 0, !.x = 0, !.y = 0, !.z = 0,
                         !.zenith = randomZenith(rnd[2]),
                         !.azimuth = randomAzimuth(rnd[1])],
     out   |-> << [kind |-> "HIT_BOUNDARY", x |-> p.x, y |-> p.y, z |-> p.z,
                   half |-> p.gridHalfSize] >>,
     nrand |-> 2]

\* variant of onBoundary: z is not set back to 0
onBoundaryKeepsZ(p, rnd) ==
    [ray   |-> [p EXCEPT !.currentLength = 0, !.x = 0, !.y = 0,
                         !.zenith = randomZenith(rnd[1]),
                         !.azimuth = randomAzimuth(rnd[2])],
     out   |-> << [kind |-> "HIT_BOUNDARY", x |-> p.x, y |-> p.y, z |-> p.z,
                   half |-> p.gridHalfSize] >>,
     nrand |-> 2]

\* Ray::update, lines 131-135: the body of if (isOutsideCube())
onBoundary(p, rnd) ==
    [ray   |-> [p EXCEPT !.currentLength = 0, !.x = 0, !.y = 0, !.z = 0,
                         !.zenith = randomZenith(rnd[1]),
                         !.azimuth = randomAzimuth(rnd[2])],
     out   |-> << [kind |-> "HIT_BOUNDARY", x |-> p.x, y |-> p.y, z |-> p.z,
                   half |-> p.gridHalfSize] >>,
     nrand |-> 2]

\* variant of finish: the boundary is tested before the loop's result
finishBoundaryFirst(p, k, sph, rnd) ==
    IF isOutsideCube(p) THEN onBoundary(p, rnd)
    ELSE IF k # 0 THEN onSphereHit(p, sph[k], rnd)
    ELSE [ray |-> p, out |-> << >>, nrand |-> 0]

\* Ray::update, lines 118-136, given the moved ray p and the loop's result k
finish(p, k, sph, rnd) ==
    IF k # 0 THEN onSphereHit(p, sph[k], rnd)
    ELSE IF isOutsideCube(p) THEN onBoundary(p, rnd)
    ELSE [ray |-> p, out |-> << >>, nrand |-> 0]

----------------------------------------------------------------------------
(* The random source: rand() returns any int in 0 .. RAND_MAX; the model    *)
(* draws from the first NumRand of these samples.                           *)

RandSamples == << 0, 180, 90, RAND_MAX, 225, 405 >>
NumRand == 4
RandValues == { RandSamples[i] : i \in 1 .. NumRand }

\* the frame loop's model draws from the first NumMainRand of these samples
\* (360 is reduced to 0 by both % 180 and % 360)
MainRandSamples == << 0, 360, 180 >>
NumMainRand == 1
MainRandValues == { MainRandSamples[i] : i \in 1 .. NumMainRand }

\* the values the rand() calls of one update can return, in order: two when
\* the update resets the ray, none when it does not (rand() is not called)
Draws(p, k, values) ==
    IF k # 0 \/ isOutsideCube(p) THEN values \X values ELSE { << >> }

----------------------------------------------------------------------------
(* main: the camera and the frame loop *)

MaxTurn == 1

\* the history counter sinceReset is followed up to MaxFlight updates without
\* a reset; no flight of the program is that long (a step is 0.005 and the
\* cube's half diagonal 0.87, so at most 174 updates)
MaxFlight == 200

\* std::max and std::min
max(a, b) == IF a < b THEN b ELSE a
min(a, b) == IF b < a THEN b ELSE a

\* variant of handleKeys: the polar angle is not clamped
handleKeysUnclamped(theta, phi, k) ==
    LET t1 == IF k.right THEN theta + rotationSpeed ELSE theta
        t2 == IF k.left THEN t1 - rotationSpeed ELSE t1
        p1 == IF k.up THEN phi - rotationSpeed ELSE phi
        p2 == IF k.down THEN p1 + rotationSpeed ELSE p1
    IN  [theta |-> t2, phi |-> p2, clamped |-> FALSE]

\* main, lines 804-811: the four key tests, in order.  clamped tells whether
\* std::max or std::min returned its bound rather than the moved angle.
handleKeys(theta, phi, k) ==
    LET t1 == IF k.right THEN theta + rotationSpeed ELSE theta
        t2 == IF k.left THEN t1 - rotationSpeed ELSE t1
        p1 == IF k.up THEN max(1, phi - rotationSpeed) ELSE phi
        p2 == IF k.down THEN min(179, p1 + rotationSpeed) ELSE p1
    IN  [theta |-> t2, phi |-> p2,
         clamped |-> \/ (k.up /\ phi - rotationSpeed < 1)
                     \/ (k.down /\ p1 + rotationSpeed > 179)]

KeyStates == [right : BOOLEAN, left : BOOLEAN, up : BOOLEAN, down : BOOLEAN]

\* main, lines 253 and 825-827: the camera position on its orbit
cameraRadius == 30000
cameraPosition(theta, phi) ==
    << Round(Round(cameraRadius * Sin(phi), TrigScale) * Cos(theta), TrigScale),
       Round(cameraRadius * Cos(phi), TrigScale),
       Round(Round(cameraRadius * Sin(phi), TrigScale) * Sin(theta), TrigScale) >>

\* variant of rayVerticesOf: the end point is read before ray.update runs
rayVerticesStale(before, after) == <<0, 0, 0, before.x, before.y, before.z>>

\* main, lines 857-863: the segment built from ray.getEndPoint, which main
\* calls after ray.update has returned (before and after are the ray before
\* and after that call)
rayVerticesOf(before, after) == <<0, 0, 0, after.x, after.y, after.z>>

\* main, lines 804-867: what one frame calls, in source order
FrameCalls ==
    << "glfwGetKey", "Ray::update", "glm::lookAt", "Ray::getEndPoint",
       "glBufferSubData" >>

----------------------------------------------------------------------------
(* State machines *)

\* a Ray just constructed and a sphere list, before any call of update
Init ==
    /\ ray = RayInit
    /\ spheres \in SphereListNames
    /\ pre = RayInit
    /\ post = RayInit
    /\ out = << >>
    /\ nrand = 0
    /\ drawn = << >>
    /\ sinceReset = 0
    /\ cameraTheta = 45
    /\ cameraPhi = 45
    /\ clamped = FALSE
    /\ rayVertices = << >>
    /\ view = << >>
    /\ calls = << >>

\* main before its first frame: lines 252-258 and the list of lines 275-782
MainInit ==
    /\ Init
    /\ spheres = "main"

\* one call ray.update(spheres)
Update ==
    \E p \in {move(ray)} : \E k \in {firstHit(p, SphereList(spheres))} :
        \E rnd \in Draws(p, k, RandValues) :
            LET res == finish(p, k, SphereList(spheres), rnd) IN
            /\ sinceReset < MaxFlight
            /\ ray' = res.ray
            /\ out' = res.out
            /\ nrand' = res.nrand
            /\ drawn' = rnd
            /\ sinceReset' = IF res.out # << >> THEN 0 ELSE sinceReset + 1
            /\ pre' = ray
            /\ post' = p
            /\ UNCHANGED <<spheres, cameraTheta, cameraPhi, clamped,
                           rayVertices, view, calls>>

\* variant of Frame: a frame in which the ray is reset also puts the camera
\* back at its initial angles
FrameRecentres ==
    \E p \in {move(ray)} : \E k \in {firstHit(p, SphereList(spheres))} :
        \E ks \in KeyStates, rnd \in Draws(p, k, MainRandValues) :
            LET res  == finish(p, k, SphereList(spheres), rnd)
                keys == handleKeys(cameraTheta, cameraPhi, ks)
                cam  == IF res.out # << >>
                        THEN [theta |-> 45, phi |-> 45, clamped |-> FALSE]
                        ELSE keys
            IN  /\ fabs(cam.theta - 45) <= MaxTurn * rotationSpeed
                /\ sinceReset < MaxFlight
                /\ cameraTheta' = cam.theta
                /\ cameraPhi' = cam.phi
                /\ clamped' = cam.clamped
                /\ ray' = res.ray
                /\ out' = res.out
                /\ nrand' = res.nrand
                /\ drawn' = rnd
                /\ sinceReset' = IF res.out # << >> THEN 0 ELSE sinceReset + 1
                /\ pre' = ray
                /\ post' = p
                /\ view' = cameraPosition(cam.theta, cam.phi)
                /\ rayVertices' = rayVerticesOf(ray, res.ray)
                /\ calls' = FrameCalls
                /\ UNCHANGED spheres

\* one iteration of main's while loop: lines 803-879
Frame ==
    \E p \in {move(ray)} : \E k \in {firstHit(p, SphereList(spheres))} :
        \E ks \in KeyStates, rnd \in Draws(p, k, MainRandValues) :
            LET cam == handleKeys(cameraTheta, cameraPhi, ks)
                res == finish(p, k, SphereList(spheres), rnd)
            IN  /\ fabs(cam.theta - 45) <= MaxTurn * rotationSpeed
                /\ sinceReset < MaxFlight
                /\ cameraTheta' = cam.theta
                /\ cameraPhi' = cam.phi
                /\ clamped' = cam.clamped
                /\ ray' = res.ray
                /\ out' = res.out
                /\ nrand' = res.nrand
                /\ drawn' = rnd
                /\ sinceReset' = IF res.out # << >> THEN 0 ELSE sinceReset + 1
                /\ pre' = ray
                /\ post' = p
                /\ view' = cameraPosition(cam.theta, cam.phi)
                /\ rayVertices' = rayVerticesOf(ray, res.ray)
                /\ calls' = FrameCalls
                /\ UNCHANGED spheres

Next == Update
Spec == Init /\ [][Next]_vars

\* ticks keep being executed
FairSpec == Init /\ [][Next]_vars /\ WF_vars(Update)

MainNext == Frame
MainSpec == MainInit /\ [][MainNext]_vars

----------------------------------------------------------------------------
(* Properties.  They read the history variables: post is the ray at the     *)
(* post-move position of the last update, out is what that update reported, *)
(* ray is what it left behind.                                              *)

\* at least one update has run (speed > 0, so the first move leaves 0)
Ticked == post.currentLength > 0

TheSpheres == SphereList(spheres)

DistanceSquared(p, s) ==
    (p.x - s.x) * (p.x - s.x) + (p.y - s.y) * (p.y - s.y)
        + (p.z - s.z) * (p.z - s.z)

\* the spheres of the list that hold the post-move position
HitSet ==
    {i \in 1 .. Len(TheSpheres) :
        DistanceSquared(post, TheSpheres[i])
            <= TheSpheres[i].radius * TheSpheres[i].radius}

LeastHit == CHOOSE i \in HitSet : \A j \in HitSet : i <= j

\* some coordinate magnitude of p is strictly greater than the half size
BeyondGrid(p) ==
    \/ p.x > p.gridHalfSize \/ p.x < -p.gridHalfSize
    \/ p.y > p.gridHalfSize \/ p.y < -p.gridHalfSize
    \/ p.z > p.gridHalfSize \/ p.z < -p.gridHalfSize

Kinds == [i \in 1 .. Len(out) |-> out[i].kind]

AtOrigin(r) == r.x = 0 /\ r.y = 0 /\ r.z = 0

ObstacleEvent(s) == [kind |-> "HIT_OBSTACLE", x |-> s.x, y |-> s.y, z |-> s.z]

BoundaryEvent(p) ==
    [kind |-> "HIT_BOUNDARY", x |-> p.x, y |-> p.y, z |-> p.z,
     half |-> p.gridHalfSize]

\* C1: collision priority.  When the post-move position is inside some
\* obstacle and outside the grid, the update reports the obstacle hit and
\* nothing else; a boundary exit is reported only when no obstacle holds the
\* post-move position.
C1_CollisionPriority ==
    Ticked =>
        /\ (HitSet # {} /\ BeyondGrid(post)) => Kinds = << "HIT_OBSTACLE" >>
        /\ (\E i \in 1 .. Len(out) : out[i].kind = "HIT_BOUNDARY") => HitSet = {}

\* C1 witness: an update whose post-move position was beyond the grid and
\* inside a sphere, and which reported the sphere
C1_Witness ==
    /\ Ticked
    /\ HitSet # {}
    /\ BeyondGrid(post)
    /\ Kinds = << "HIT_OBSTACLE" >>

\* C2: first-match ordering.  When two or more obstacles hold the post-move
\* position, the update reports exactly one hit, that of the obstacle with the
\* least index, and resets once (two draws, ray back at the origin).
C2_FirstMatch ==
    (Ticked /\ Cardinality(HitSet) >= 2) =>
        /\ out = << ObstacleEvent(TheSpheres[LeastHit]) >>
        /\ nrand = 2
        /\ ray.currentLength = 0
        /\ AtOrigin(ray)

\* C2 witness: two spheres with different centres held the post-move
\* position, and the first was reported
C2_Witness ==
    /\ Ticked
    /\ HitSet = {1, 2}
    /\ TheSpheres[1].x # TheSpheres[2].x
    /\ out = << ObstacleEvent(TheSpheres[1]) >>

\* C3: reset exactness.  After an update that reset the ray, for an obstacle
\* hit or a boundary exit, currentLength is 0 and the position is (0, 0, 0).
C3_ResetExact ==
    (out # << >> \/ nrand > 0) =>
        /\ ray.currentLength = 0
        /\ ray.x = 0
        /\ ray.y = 0
        /\ ray.z = 0

\* C3 witness: a boundary exit from a position with no coordinate at 0 left
\* the ray at the origin with length 0
C3_Witness ==
    /\ Len(out) = 1
    /\ out[1].kind = "HIT_BOUNDARY"
    /\ post.x # 0 /\ post.y # 0 /\ post.z # 0
    /\ ray.currentLength = 0
    /\ AtOrigin(ray)

\* C4: random range.  In every state the ray's zenith is a whole number in
\* [0, 180) and its azimuth a whole number in [0, 360).
C4_RandomRange ==
    /\ ray.zenith \in 0 .. 179
    /\ ray.azimuth \in 0 .. 359

\* C4 witness: a reset drew RAND_MAX for both angles
C4_Witness ==
    /\ nrand = 2
    /\ ray.zenith = RAND_MAX % 180
    /\ ray.azimuth = RAND_MAX % 360

\* C5: boundary edge case.  isOutsideCube is true exactly when a coordinate
\* magnitude is strictly greater than the half size; an update whose post-move
\* position has a coordinate magnitude equal to the half size, none greater,
\* and lies in no obstacle, reports nothing and does not reset.
C5_BoundaryEdge ==
    Ticked =>
        /\ isOutsideCube(post) <=> BeyondGrid(post)
        /\ ( /\ ~BeyondGrid(post)
             /\ \/ fabs(post.x) = post.gridHalfSize
                \/ fabs(post.y) = post.gridHalfSize
                \/ fabs(post.z) = post.gridHalfSize
             /\ HitSet = {} )
           => (out = << >> /\ nrand = 0 /\ ray = post)

\* C5 witness: an update ended with y exactly at the half size and went on
C5_Witness ==
    /\ Ticked
    /\ post.y = post.gridHalfSize
    /\ HitSet = {}
    /\ out = << >>
    /\ ray = post

\* the spherical-to-Cartesian mapping: x = L sin(zenith) cos(azimuth),
\* y = L cos(zenith), z = L sin(zenith) sin(azimuth)
SphericalToCartesian(zen, az, len) ==
    << Round(Round(len * Sin(zen), TrigScale) * Cos(az), TrigScale),
       Round(len * Cos(zen), TrigScale),
       Round(Round(len * Sin(zen), TrigScale) * Sin(az), TrigScale) >>

\* C6: position consistency.  After every update the position is the
\* spherical-to-Cartesian mapping of the current zenith, azimuth and
\* currentLength, right after a reset too.
C6_PositionConsistent ==
    <<ray.x, ray.y, ray.z>>
        = SphericalToCartesian(ray.zenith, ray.azimuth, ray.currentLength)

\* C6 witness: a reset replaced the direction and set the position directly
C6_Witness ==
    /\ nrand = 2
    /\ out # << >>
    /\ ray.zenith # pre.zenith
    /\ ray.azimuth # pre.azimuth
    /\ ~AtOrigin(post)
    /\ AtOrigin(ray)

\* C7: the simulation never stays terminated.  Every update that reports an
\* event leaves the ray reset at the origin, the next update is an ordinary
\* move from there, and, updates being run again and again, a reset always
\* occurs again.
C7_NeverTerminated ==
    /\ [](out # << >> => (ray.currentLength = 0 /\ AtOrigin(ray)))
    /\ [][out # << >> =>
            (post'.currentLength = ray.speed /\ post'.zenith = ray.zenith
                /\ post'.azimuth = ray.azimuth)]_vars
    /\ []<>(out # << >>)
    /\ []<>(out = << >> /\ Ticked)

\* C7 witness: after a reset the ray is in flight again, in a drawn direction
C7_Witness ==
    /\ out = << >>
    /\ ray.currentLength > 0
    /\ ray.zenith = RAND_MAX % 180
    /\ pre.currentLength = 0

\* the example's flight: half size 0.5, speed 0.005, direction (45, 45), and
\* no obstacle at the post-move position
ExampleTick ==
    /\ Ticked
    /\ pre.zenith = 45 /\ pre.azimuth = 45
    /\ pre.speed = 50 /\ pre.gridHalfSize = 5000
    /\ HitSet = {}

\* C8 as stated: once an update has brought currentLength to the first value
\* at which a coordinate magnitude exceeds 0.5, the next update reports
\* HIT_BOUNDARY and resets the ray to the origin.
C8_NextTickReports ==
    [][(ExampleTick /\ BeyondGrid(post)) =>
            (/\ Len(out') = 1
             /\ out'[1].kind = "HIT_BOUNDARY"
             /\ AtOrigin(ray'))]_vars

\* C8 amended: in the example's flight, the update that brings currentLength
\* to the first value at which a coordinate magnitude exceeds 0.5 (0.71, at
\* the 142nd update) itself reports HIT_BOUNDARY with that position and
\* resets the ray to the origin; every earlier update of the flight reports
\* nothing and leaves the ray where it moved to.
C8_SameTickReports ==
    ExampleTick =>
        /\ BeyondGrid(post) <=> post.currentLength = 142 * 50
        /\ post.currentLength <= 142 * 50
        /\ BeyondGrid(post) =>
               (/\ out = << BoundaryEvent(post) >>
                /\ ray.currentLength = 0
                /\ AtOrigin(ray))
        /\ ~BeyondGrid(post) => (out = << >> /\ ray = post)

\* C8 witness: the example's flight left the cube, with no obstacle near, and
\* that update reported the boundary and reset the ray
C8_Witness ==
    /\ ExampleTick
    /\ Len(TheSpheres) = 0
    /\ BeyondGrid(post)
    /\ out = << BoundaryEvent(post) >>
    /\ AtOrigin(ray)

UpOnly == [right |-> FALSE, left |-> FALSE, up |-> TRUE, down |-> FALSE]
RightOnly == [right |-> TRUE, left |-> FALSE, up |-> FALSE, down |-> FALSE]
LeftOnly == [right |-> FALSE, left |-> TRUE, up |-> FALSE, down |-> FALSE]

\* C10: camera polar clamp.  After any frames with any keys held, cameraPhi
\* lies in [1, 179]; cameraTheta moves by the rotation speed from any angle,
\* the ends of that range and beyond included.
C10_PolarClamp ==
    /\ cameraPhi >= 1
    /\ cameraPhi <= 179
    /\ \A t \in {-1, 1, 179, 359} :
        /\ handleKeys(t, cameraPhi, RightOnly).theta = t + rotationSpeed
        /\ handleKeys(t, cameraPhi, LeftOnly).theta = t - rotationSpeed

\* C10 witness: UP and DOWN held together at the lower bound: std::max cut
\* the angle to 1 and std::min then moved it to 3
C10_Witness ==
    /\ clamped
    /\ cameraPhi = 1 + rotationSpeed
    /\ rayVertices # << >>

\* where the call named c stands in the last frame
CallIndex(c) == CHOOSE i \in 1 .. Len(calls) : calls[i] = c

CallCount(c) == Cardinality({i \in 1 .. Len(calls) : calls[i] = c})

C12_ConstantConfiguration ==
    /\ [](/\ ray.speed = RayInit.speed
          /\ ray.gridHalfSize = RayInit.gridHalfSize
          /\ post.speed = RayInit.speed
          /\ post.gridHalfSize = RayInit.gridHalfSize)
    /\ [][/\ ray'.speed = ray.speed
          /\ ray'.gridHalfSize = ray.gridHalfSize
          /\ Len(SphereList(spheres')) = Len(SphereList(spheres))
          /\ SphereList(spheres') = SphereList(spheres)]_vars

\* C12 witness: a flight that began after a reset has ended in a boundary
\* exit, and has travelled normally in between, on a list that is not empty;
\* the speed and the half size are still those of the constructor
C12_Witness ==
    /\ Kinds = << "HIT_BOUNDARY" >>
    /\ pre.currentLength > pre.speed
    /\ (pre.zenith # RayInit.zenith \/ pre.azimuth # RayInit.azimuth)
    /\ spheres = "main"
    /\ Len(TheSpheres) = 432
    /\ ray.speed = 50
    /\ ray.gridHalfSize = 5000

Crosses(a, b, s) ==
    /\ DistanceSquared(a, s)
            <= (s.radius + 2 * a.speed) * (s.radius + 2 * a.speed)
    /\ LET dot == (s.x - a.x) * (b.x - a.x) + (s.y - a.y) * (b.y - a.y)
                      + (s.z - a.z) * (b.z - a.z)
           dd  == (b.x - a.x) * (b.x - a.x) + (b.y - a.y) * (b.y - a.y)
                      + (b.z - a.z) * (b.z - a.z)
       IN  \/ DistanceSquared(a, s) <= s.radius * s.radius
           \/ DistanceSquared(b, s) <= s.radius * s.radius
           \/ /\ dot > 0
              /\ dot < dd
              /\ (DistanceSquared(a, s) - s.radius * s.radius) * dd <= dot * dot

\* the spheres the last update's step from pre to post passed through
CrossedSet == {i \in 1 .. Len(TheSpheres) : Crosses(pre, post, TheSpheres[i])}

\* C14: non-swept collision test.  Whether an update reports an event depends
\* on the post-move position alone: there is an event exactly when a sphere
\* holds that position or it is beyond the grid.  An update whose step from
\* the pre-move to the post-move position passes through a sphere, while the
\* post-move position is in no sphere and within the grid, ends with no event
\* and no reset.
C14_NonSwept ==
    Ticked =>
        /\ out # << >> <=> (HitSet # {} \/ BeyondGrid(post))
        /\ (CrossedSet # {} /\ HitSet = {} /\ ~BeyondGrid(post)) =>
                /\ out = << >>
                /\ nrand = 0
                /\ ray = post
                /\ ray.currentLength = pre.currentLength + pre.speed

\* C14 witness: the step from (-0.1, 0, 0) to (-0.105, 0, 0) passed through
\* the sphere of radius 0.002 between them; neither end is in it, and the
\* update ended with no event
C14_Witness ==
    /\ Ticked
    /\ spheres = "test"
    /\ pre.x = -1000
    /\ post.x = -1050
    /\ CrossedSet = {4}
    /\ HitSet = {}
    /\ ~BeyondGrid(post)
    /\ out = << >>
    /\ ray = post

\* the post-move ray as a function of the ray before the update
PostOf(r) ==
    LET len == r.currentLength + r.speed
        pos == SphericalToCartesian(r.zenith, r.azimuth, len)
    IN  [r EXCEPT !.currentLength = len, !.x = pos[1], !.y = pos[2],
                  !.z = pos[3]]

\* the ray an update leaves, as a function of the post-move ray, the spheres
\* that hold it and the values drawn
RayOf(p, hits, values) ==
    IF hits # {} \/ BeyondGrid(p)
    THEN [p EXCEPT !.currentLength = 0, !.x = 0, !.y = 0, !.z = 0,
                   !.zenith = values[1] % 180, !.azimuth = values[2] % 360]
    ELSE p

\* the events an update reports, as a function of the same
OutOf(p, hits) ==
    IF hits # {}
    THEN << ObstacleEvent(TheSpheres[CHOOSE i \in hits : \A j \in hits : i <= j]) >>
    ELSE IF BeyondGrid(p) THEN << BoundaryEvent(p) >> ELSE << >>

\* C15: reset draws and determinism.  An update that resets the ray, for a
\* sphere hit or a boundary exit, calls rand() exactly twice; zenith is the
\* first value modulo 180 and azimuth the second modulo 360; an update that
\* does not reset calls it not at all.  The ray and the events an update
\* leaves are a function of the ray before it, the sphere list and the values
\* drawn, and of nothing else: so two runs fed the same values go through
\* the same rays and events.
C15_ResetDraws ==
    Ticked =>
        /\ nrand = Len(drawn)
        /\ out # << >> =>
                /\ nrand = 2
                /\ ray.zenith = drawn[1] % 180
                /\ ray.azimuth = drawn[2] % 360
        /\ out = << >> => nrand = 0
        /\ post = PostOf(pre)
        /\ ray = RayOf(post, HitSet, drawn)
        /\ out = OutOf(post, HitSet)

\* C15 witness: a boundary exit drew 180 and then RAND_MAX; the first gave
\* zenith 180 % 180 = 0 and the second azimuth RAND_MAX % 360 = 127
C15_Witness ==
    /\ Ticked
    /\ Kinds = << "HIT_BOUNDARY" >>
    /\ nrand = 2
    /\ drawn = << 180, RAND_MAX >>
    /\ ray.zenith = 0
    /\ ray.azimuth = 127

\* every azimuth rand() % 360 can give
Azimuths == 0 .. 359

\* C16: degenerate direction.  In a flight whose zenith is 0 every position
\* is (0, currentLength, 0), on the y axis, and would be for every azimuth
\* from 0 to 359.  The flight is treated like any other: with no sphere at
\* the post-move position the update reports a boundary exit exactly when y
\* is greater than the half size, a sphere that holds the position is
\* reported as a hit, and otherwise the ray travels on.
C16_DegenerateDirection ==
    /\ ray.zenith = 0 =>
            <<ray.x, ray.y, ray.z>> = <<0, ray.currentLength, 0>>
    /\ (Ticked /\ pre.zenith = 0) =>
            /\ <<post.x, post.y, post.z>> = <<0, post.currentLength, 0>>
            /\ \A az \in Azimuths :
                    updatePosition([post EXCEPT !.azimuth = az])
                        = [post EXCEPT !.azimuth = az]
            /\ HitSet = {} =>
                    (out = << BoundaryEvent(post) >> <=> post.y > post.gridHalfSize)
            /\ HitSet # {} => out = << ObstacleEvent(TheSpheres[LeastHit]) >>
            /\ out = << >> => ray = post

\* C16 witness: a flight with zenith 0 and azimuth 127 went up the y axis
\* and ended with a boundary exit at (0, 0.505, 0)
C16_Witness ==
    /\ Ticked
    /\ pre.zenith = 0
    /\ pre.azimuth = 127
    /\ <<post.x, post.y, post.z>> = <<0, 5050, 0>>
    /\ HitSet = {}
    /\ out = << BoundaryEvent(post) >>
    /\ AtOrigin(ray)

\* the sphere s holds the position of r: the centre is at most s.radius away
\* (which needs each coordinate to be at most s.radius away)
Holds(r, s) ==
    /\ fabs(r.x - s.x) <= s.radius
    /\ fabs(r.y - s.y) <= s.radius
    /\ fabs(r.z - s.z) <= s.radius
    /\ DistanceSquared(r, s) <= s.radius * s.radius

InSomeSphere(r) == \E i \in 1 .. Len(TheSpheres) : Holds(r, TheSpheres[i])

WithinGrid(r) ==
    /\ fabs(r.x) <= r.gridHalfSize
    /\ fabs(r.y) <= r.gridHalfSize
    /\ fabs(r.z) <= r.gridHalfSize

\* C17: with the shipped sphere list (no sphere holds the origin), the
\* position the ray has when a frame's update has returned, which is the one
\* the frame hands to the renderer, is within the grid (every coordinate
\* magnitude at most the half size) and in no sphere.  A post-move position
\* beyond the grid or in a sphere exists only inside the update: the ray is
\* at the origin when the update returns.
C17_RenderedPositionValid ==
    /\ WithinGrid(ray)
    /\ ~InSomeSphere(ray)
    /\ calls # << >> =>
            /\ rayVertices = <<0, 0, 0, ray.x, ray.y, ray.z>>
            /\ (~WithinGrid(post) \/ InSomeSphere(post)) =>
                    (AtOrigin(ray) /\ ray.currentLength = 0)

\* C17 witness: the post-move position of a frame's update was in a shipped
\* sphere, and the frame handed the origin to the renderer
C17_Witness ==
    /\ calls # << >>
    /\ spheres = "main"
    /\ InSomeSphere(post)
    /\ WithinGrid(post)
    /\ Kinds = << "HIT_OBSTACLE" >>
    /\ AtOrigin(ray)
    /\ ~InSomeSphere(ray)
    /\ rayVertices = <<0, 0, 0, 0, 0, 0>>

\* the spheres that hold the position of r
HeldSet(r) == {i \in 1 .. Len(TheSpheres) : Holds(r, TheSpheres[i])}

\* the camera angles a frame leaves, as a function of the angles before it
\* and the keys held down
ThetaAfter(theta, ks) ==
    theta + (IF ks.right THEN rotationSpeed ELSE 0)
          - (IF ks.left THEN rotationSpeed ELSE 0)

PhiAfter(phi, ks) ==
    LET raised  == IF ks.up
                   THEN (IF phi - rotationSpeed < 1 THEN 1 ELSE phi - rotationSpeed)
                   ELSE phi
    IN  IF ks.down
        THEN (IF raised + rotationSpeed > 179 THEN 179 ELSE raised + rotationSpeed)
        ELSE raised

====
